---- MODULE Spec2Model ----
(***************************************************************************)
(* The SRS client of skyeye: the data client (TCP, package data) and the   *)
(* transmit side of the audio client (UDP, package audio).                 *)
(*                                                                         *)
(* Spec / FairSpec          the data client: Run, its reader goroutine,    *)
(*                          the message router and the peer directory.     *)
(* AudioSpec / AudioFairSpec the audio client: Run, transmit, tx,          *)
(*                          waitForClearChannel and writePackets.          *)
(***************************************************************************)
EXTENDS Integers, Sequences, FiniteSets, TLC

\* ------------------------------------------------------------------ bounds

\* Most clients a received Sync message carries.
MaxSync == 2
\* Most writes to the TCP connection in one run (two of them are the handshake).
MaxWrites == 3
\* Most voice packets in one batch handed to tx.
MaxPackets == 2
\* Farthest a receiver's deadline lies ahead when a voice packet arrives, in ticks.
MaxHold == 2

\* ------------------------------------------------------------ data: values

SelfGUID == "self"
GUIDs == {SelfGUID, "A", "B"}
\* The display names a client goes by: peer A is seen under two names.
NamesOf(guid) ==
    IF guid = SelfGUID THEN {"SkyEye"}
    ELSE IF guid = "A" THEN {"Viper", "Eagle"}
    ELSE {"Eagle"}
Names == UNION {NamesOf(g) : g \in GUIDs}

Spectator == 0
Red == 1
Blue == 2
Coalitions == {Spectator, Red, Blue}

\* types.IsSpectator
IsSpectator(coalition) == coalition = Spectator

AM == "AM"
\* Radios: 251.0 MHz AM, 243.0 MHz AM, and a slot that is switched off.
Radio251 == [Frequency |-> 251000000, Modulation |-> AM]
Radio243 == [Frequency |-> 243000000, Modulation |-> AM]
RadioOff == [Frequency |-> 0, Modulation |-> AM]

\* A radio at or below 8 MHz counts as not tuned.
IsTuned(radio) == radio.Frequency > 8000000

\* Radio.IsSameFrequency: equal (frequency, modulation), both tuned.
IsSameFrequency(r1, r2) == IsTuned(r1) /\ IsTuned(r2) /\ r1 = r2

\* RadioInfo.IsOnFrequency: some radio of one matches some radio of the other.
IsOnFrequency(info, other) ==
    \E i \in 1..Len(info.Radios) : \E j \in 1..Len(other.Radios) :
        IsSameFrequency(info.Radios[i], other.Radios[j])

\* The radio lists a peer announces.
RadioLists == {<<>>, <<Radio251>>, <<RadioOff, Radio243>>}
\* The radio list this client is configured with.
SelfRadios == <<Radio251, RadioOff>>

ClientInfos ==
    {info \in [GUID : GUIDs, Name : Names, Coalition : Coalitions,
               RadioInfo : [Radios : RadioLists]] :
        info.Name \in NamesOf(info.GUID)}

\* The client information NewClient authors from the configuration.
SelfInfo(coalition) ==
    [GUID |-> SelfGUID, Name |-> "SkyEye", Coalition |-> coalition,
     RadioInfo |-> [Radios |-> SelfRadios]]

Password == "hunter2"
ProtocolVersion == "2.1.0.2"

MessagePing == "Ping"
MessageServerSettings == "ServerSettings"
MessageVersionMismatch == "VersionMismatch"
MessageExternalAWACSModeDisconnect == "ExternalAWACSModeDisconnect"
MessageSync == "Sync"
MessageUpdate == "Update"
MessageRadioUpdate == "RadioUpdate"
MessageClientDisconnect == "ClientDisconnect"
MessageExternalAWACSModePassword == "ExternalAWACSModePassword"
MessageUnknown == "Unknown"

IgnoredTypes ==
    {MessagePing, MessageServerSettings, MessageVersionMismatch,
     MessageExternalAWACSModeDisconnect, MessageUnknown}

\* The zero ClientInfo of a message that carries no client.
NoClient ==
    [GUID |-> "", Name |-> "", Coalition |-> Spectator, RadioInfo |-> [Radios |-> <<>>]]

\* The messages the server sends. NumClients is len(Clients) of a Sync; the
\* elements themselves are drawn as syncClients ranges over them.
Messages ==
    [Type : {MessageUpdate, MessageRadioUpdate, MessageClientDisconnect},
     Client : ClientInfos, NumClients : {0}]
    \cup [Type : {MessageExternalAWACSModePassword},
          Client : {[NoClient EXCEPT !.Coalition = c] : c \in Coalitions},
          NumClients : {0}]
    \cup [Type : IgnoredTypes, Client : {NoClient}, NumClients : {0}]
    \cup [Type : {MessageSync}, Client : {NoClient}, NumClients : 0..MaxSync]

NoMessage == [Type |-> "", Client |-> NoClient, NumClients |-> 0]

\* A line read from the connection: the JSON of a message, or text that is not JSON.
Lines == {<<"json", m>> : m \in Messages} \cup {<<"garbage">>}

\* json.Unmarshal(line, &message)
Unmarshal(line) ==
    IF line[1] = "json" THEN [err |-> FALSE, message |-> line[2]]
    ELSE [err |-> TRUE, message |-> NoMessage]

\* ------------------------------------------------------------- data: state

VARIABLES
    clientInfo,     \* dataClient.clientInfo
    externalAWACSModePassword, \* dataClient.externalAWACSModePassword
    clients,        \* dataClient.clients: GUID -> ClientInfo
    lastReceived,   \* dataClient.lastReceived: 0 the zero time, 1 the time of the latest message
    connClosed,     \* dataClient.connection has been closed
    cancelled,      \* ctx is canceled
    ready,          \* readyCh is closed
    wg,             \* the caller's waitgroup counter
    runPc,          \* where Run is
    runErr,         \* what Run returned: "" not yet, "nil", or the error
    readerPc,       \* where the reader goroutine is
    message,        \* the reader's message: the one it last parsed
    batchLeft,      \* syncClients: the elements its range loop has yet to reach
    wire            \* every connection.Write so far: the message, and whether it succeeded

dataVars ==
    <<clientInfo, externalAWACSModePassword, clients, lastReceived, connClosed,
      cancelled, ready, wg, runPc, runErr, readerPc, message, batchLeft, wire>>

\* The audio client's state.
VARIABLES
    mute,           \* audioClient.mute
    receivers,      \* audioClient.receivers: per radio, the time left until receiver.deadline (0: not after now)
    busy,           \* audioClient.busy: the goroutine holding the mutex, or NoOne
    udpClosed,      \* audioClient.connection has been closed
    audioCancelled, \* ctx of the audio client's Run is canceled
    audioRunPc,     \* where the audio client's Run is
    audioRunErr,    \* what it returned: "" not yet, "nil"
    packetCh,       \* voicePacketsTxChan: the number of batches buffered
    txPc,           \* per transmitter, where it is
    packets,        \* per transmitter, len(packets) of the batch it is sending
    index,          \* per transmitter, i of writePackets: the packets of the batch written so far
    sleepLeft,      \* per transmitter, the time left of the time.Sleep of waitForClearChannel
    sinceStart,     \* per transmitter, the time since startTime of writePackets
    writeErr        \* err of writePackets: the last connection.Write of the batch under way failed

audioVars ==
    <<mute, receivers, busy, udpClosed, audioCancelled, audioRunPc, audioRunErr,
      packetCh, txPc, packets, index, sleepLeft, sinceStart, writeErr>>

vars == <<dataVars, audioVars>>

\* ------------------------------------------------------ data: the directory

EmptyDirectory == [g \in {} |-> NoClient]

Upsert(dir, info) ==
    [g \in DOMAIN dir \cup {info.GUID} |-> IF g = info.GUID THEN info ELSE dir[g]]

Delete(dir, guid) == [g \in DOMAIN dir \ {guid} |-> dir[g]]

\* syncClient without the check for the client's own GUID.
syncClientNoSelfCheck(dir, self, other) ==
    IF Len(other.RadioInfo.Radios) = 0 THEN dir
    ELSE IF (self.Coalition = other.Coalition \/ IsSpectator(other.Coalition))
            /\ IsOnFrequency(self.RadioInfo, other.RadioInfo)
         THEN Upsert(dir, other)
         ELSE Delete(dir, other.GUID)

\* syncClient that stores the peer whatever its coalition.
syncClientAnyCoalition(dir, self, other) ==
    IF other.GUID = self.GUID THEN dir
    ELSE IF Len(other.RadioInfo.Radios) = 0 THEN dir
    ELSE IF IsOnFrequency(self.RadioInfo, other.RadioInfo)
         THEN Upsert(dir, other)
         ELSE Delete(dir, other.GUID)

\* syncClient that keeps the entry of a peer that no longer matches.
syncClientNoDelete(dir, self, other) ==
    IF other.GUID = self.GUID THEN dir
    ELSE IF Len(other.RadioInfo.Radios) = 0 THEN dir
    ELSE IF (self.Coalition = other.Coalition \/ IsSpectator(other.Coalition))
            /\ IsOnFrequency(self.RadioInfo, other.RadioInfo)
         THEN Upsert(dir, other)
         ELSE dir

\* syncClient that drops the entry of a peer reported without radios.
syncClientEmptyRadiosDelete(dir, self, other) ==
    IF other.GUID = self.GUID THEN dir
    ELSE IF Len(other.RadioInfo.Radios) = 0 THEN Delete(dir, other.GUID)
    ELSE IF (self.Coalition = other.Coalition \/ IsSpectator(other.Coalition))
            /\ IsOnFrequency(self.RadioInfo, other.RadioInfo)
         THEN Upsert(dir, other)
         ELSE Delete(dir, other.GUID)

\* syncClient that stores a peer of the right coalition whatever its radios.
syncClientAnyFrequency(dir, self, other) ==
    IF other.GUID = self.GUID THEN dir
    ELSE IF Len(other.RadioInfo.Radios) = 0 THEN dir
    ELSE IF self.Coalition = other.Coalition \/ IsSpectator(other.Coalition)
         THEN Upsert(dir, other)
         ELSE Delete(dir, other.GUID)

\* dataClient.syncClient: the directory after it.
syncClient(dir, self, other) ==
    IF other.GUID = self.GUID THEN dir
    ELSE IF Len(other.RadioInfo.Radios) = 0 THEN dir
    ELSE LET isSameCoalition ==
                 self.Coalition = other.Coalition \/ IsSpectator(other.Coalition)
             isOnFrequency == IsOnFrequency(self.RadioInfo, other.RadioInfo)
         IN  IF isSameCoalition /\ isOnFrequency
             THEN Upsert(dir, other)
             ELSE Delete(dir, other.GUID)

\* removeClient that deletes only the entry equal to the client of the message.
removeClientIfSame(dir, info) ==
    IF info.GUID \in DOMAIN dir /\ dir[info.GUID] = info
    THEN Delete(dir, info.GUID)
    ELSE dir

\* dataClient.removeClient
removeClient(dir, info) == Delete(dir, info.GUID)

\* dataClient.IsOnFrequency: some entry has this name and shares a radio with
\* this client.
ClientIsOnFrequency(name) ==
    \E g \in DOMAIN clients :
        /\ clients[g].Name = name
        /\ IsOnFrequency(clientInfo.RadioInfo, clients[g].RadioInfo)

\* dataClient.ClientsOnFrequency: the number of entries that share a radio
\* with this client.
ClientsOnFrequency ==
    Cardinality({g \in DOMAIN clients :
                    IsOnFrequency(clientInfo.RadioInfo, clients[g].RadioInfo)})

\* ------------------------------------------------------- data: the writes

\* dataClient.newMessage
newMessage(t) ==
    [Version |-> ProtocolVersion, Type |-> t, Client |-> NoClient,
     ExternalAWACSModePassword |-> ""]

\* dataClient.newMessageWithClient
newMessageWithClient(t) == [newMessage(t) EXCEPT !.Client = clientInfo]

\* dataClient.Send: "version" when the message has no version (nothing is
\* written), "write" when connection.Write fails, "" when the line is written.
Send(msg, writeOk) ==
    IF msg.Version = "" THEN "version"
    ELSE IF ~writeOk THEN "write"
    ELSE ""

\* The connection after Send: a message with a version reaches connection.Write.
Written(msg, writeOk) ==
    IF msg.Version = "" THEN wire
    ELSE Append(wire, [msg |-> msg, ok |-> writeOk])

\* Run returns: the deferred close runs.
Return(err) ==
    /\ runPc' = "returned"
    /\ runErr' = err
    /\ connClosed' = TRUE

\* ------------------------------------------------------ data: Run's steps

\* NewClient: the state after construction, for each configured coalition.
DataInit ==
    /\ clientInfo \in {SelfInfo(c) : c \in Coalitions}
    /\ externalAWACSModePassword = Password
    /\ clients = EmptyDirectory
    /\ lastReceived = 0
    /\ connClosed = FALSE
    /\ cancelled = FALSE
    /\ ready = FALSE
    /\ wg = 0
    /\ runPc = "start"
    /\ runErr = ""
    /\ readerPc = "idle"
    /\ message = NoMessage
    /\ batchLeft = 0
    /\ wire = <<>>

\* The caller cancels the context.
Cancel ==
    /\ ~cancelled
    /\ cancelled' = TRUE
    /\ UNCHANGED <<clientInfo, externalAWACSModePassword, clients, lastReceived,
                   connClosed, ready, wg, runPc, runErr, readerPc, message,
                   batchLeft, wire>>
    /\ UNCHANGED audioVars

\* Run: makes the channels, wg.Add(1), starts the reader goroutine.
RunStart ==
    /\ runPc = "start"
    /\ wg' = wg + 1
    /\ readerPc' = "check"
    /\ runPc' = "ready"
    /\ UNCHANGED <<clientInfo, externalAWACSModePassword, clients, lastReceived,
                   connClosed, cancelled, ready, runErr, message, batchLeft, wire>>
    /\ UNCHANGED audioVars

\* Run: close(readyCh).
RunReady ==
    /\ runPc = "ready"
    /\ ready' = TRUE
    /\ runPc' = "sync"
    /\ UNCHANGED <<clientInfo, externalAWACSModePassword, clients, lastReceived,
                   connClosed, cancelled, wg, runErr, readerPc, message,
                   batchLeft, wire>>
    /\ UNCHANGED audioVars

\* dataClient.sync
sync(writeOk) == Send(newMessageWithClient(MessageSync), writeOk)

\* dataClient.connectExternalAWACSMode: the message it sends.
awacsMessage ==
    [newMessageWithClient(MessageExternalAWACSModePassword)
        EXCEPT !.ExternalAWACSModePassword = externalAWACSModePassword]

\* dataClient.connectExternalAWACSMode
connectExternalAWACSMode(writeOk) == Send(awacsMessage, writeOk)

\* dataClient.updateRadios
updateRadios(writeOk) == Send(newMessageWithClient(MessageRadioUpdate), writeOk)

\* Run's first write, with its error dropped.
RunSyncIgnoreError ==
    /\ runPc = "sync"
    /\ \E writeOk \in BOOLEAN :
        /\ wire' = Written(newMessageWithClient(MessageSync), writeOk)
        /\ runPc' = "awacs"
        /\ UNCHANGED <<runErr, connClosed>>
    /\ UNCHANGED <<clientInfo, externalAWACSModePassword, clients, lastReceived,
                   cancelled, ready, wg, readerPc, message, batchLeft>>
    /\ UNCHANGED audioVars

\* Run: c.sync(), and the return when it fails.
RunSync ==
    /\ runPc = "sync"
    /\ \E writeOk \in BOOLEAN :
        /\ wire' = Written(newMessageWithClient(MessageSync), writeOk)
        /\ IF sync(writeOk) # ""
           THEN Return("initial sync failed")
           ELSE runPc' = "awacs" /\ UNCHANGED <<runErr, connClosed>>
    /\ UNCHANGED <<clientInfo, externalAWACSModePassword, clients, lastReceived,
                   cancelled, ready, wg, readerPc, message, batchLeft>>
    /\ UNCHANGED audioVars

\* Run's second write, with its error dropped.
RunConnectIgnoreError ==
    /\ runPc = "awacs"
    /\ \E writeOk \in BOOLEAN :
        /\ wire' = Written(awacsMessage, writeOk)
        /\ runPc' = "loop"
        /\ UNCHANGED <<runErr, connClosed>>
    /\ UNCHANGED <<clientInfo, externalAWACSModePassword, clients, lastReceived,
                   cancelled, ready, wg, readerPc, message, batchLeft>>
    /\ UNCHANGED audioVars

\* Run: c.connectExternalAWACSMode(), and the return when it fails.
RunConnect ==
    /\ runPc = "awacs"
    /\ \E writeOk \in BOOLEAN :
        /\ wire' = Written(awacsMessage, writeOk)
        /\ IF connectExternalAWACSMode(writeOk) # ""
           THEN Return("external AWACS mode failed")
           ELSE runPc' = "loop" /\ UNCHANGED <<runErr, connClosed>>
    /\ UNCHANGED <<clientInfo, externalAWACSModePassword, clients, lastReceived,
                   cancelled, ready, wg, readerPc, message, batchLeft>>
    /\ UNCHANGED audioVars

\* The router answering every ExternalAWACSModePassword, whatever its coalition.
handleMessageAnyCoalition(m) ==
    \/ /\ m.Type \in IgnoredTypes
       /\ UNCHANGED <<clients, wire, runPc, batchLeft>>
    \/ /\ m.Type = MessageSync
       /\ IF m.NumClients = 0
          THEN UNCHANGED <<runPc, batchLeft>>
          ELSE runPc' = "syncClients" /\ batchLeft' = m.NumClients
       /\ UNCHANGED <<clients, wire>>
    \/ /\ m.Type \in {MessageUpdate, MessageRadioUpdate}
       /\ clients' = syncClient(clients, clientInfo, m.Client)
       /\ UNCHANGED <<wire, runPc, batchLeft>>
    \/ /\ m.Type = MessageClientDisconnect
       /\ clients' = removeClient(clients, m.Client)
       /\ UNCHANGED <<wire, runPc, batchLeft>>
    \/ /\ m.Type = MessageExternalAWACSModePassword
       /\ \E writeOk \in BOOLEAN :
              wire' = Written(newMessageWithClient(MessageRadioUpdate), writeOk)
       /\ UNCHANGED <<clients, runPc, batchLeft>>

\* dataClient.handleMessage, the router. A Sync with clients leaves Run in
\* the range loop of syncClients.
handleMessage(m) ==
    \/ /\ m.Type \in IgnoredTypes
       /\ UNCHANGED <<clients, wire, runPc, batchLeft>>
    \/ /\ m.Type = MessageSync
       /\ IF m.NumClients = 0
          THEN UNCHANGED <<runPc, batchLeft>>
          ELSE runPc' = "syncClients" /\ batchLeft' = m.NumClients
       /\ UNCHANGED <<clients, wire>>
    \/ /\ m.Type \in {MessageUpdate, MessageRadioUpdate}
       /\ clients' = syncClient(clients, clientInfo, m.Client)
       /\ UNCHANGED <<wire, runPc, batchLeft>>
    \/ /\ m.Type = MessageClientDisconnect
       /\ clients' = removeClient(clients, m.Client)
       /\ UNCHANGED <<wire, runPc, batchLeft>>
    \/ /\ m.Type = MessageExternalAWACSModePassword
       /\ IF m.Client.Coalition = clientInfo.Coalition
          THEN \E writeOk \in BOOLEAN :
                  wire' = Written(newMessageWithClient(MessageRadioUpdate), writeOk)
          ELSE UNCHANGED wire
       /\ UNCHANGED <<clients, runPc, batchLeft>>

\* Run's select, case m := <-messageChan: the reader's send completes.
RouterReceive ==
    /\ runPc = "loop"
    /\ readerPc = "sendMessage"
    /\ lastReceived' = 1
    /\ handleMessage(message)
    /\ readerPc' = "check"
    /\ UNCHANGED <<clientInfo, externalAWACSModePassword, connClosed, cancelled,
                   ready, wg, runErr, message>>
    /\ UNCHANGED audioVars

\* syncClients that builds the directory anew from the batch.
SyncClientsStepReplaces ==
    /\ runPc = "syncClients"
    /\ \E info \in ClientInfos :
          clients' = syncClient(EmptyDirectory, clientInfo, info)
    /\ batchLeft' = batchLeft - 1
    /\ runPc' = IF batchLeft = 1 THEN "loop" ELSE "syncClients"
    /\ UNCHANGED <<clientInfo, externalAWACSModePassword, lastReceived, connClosed,
                   cancelled, ready, wg, runErr, readerPc, message, wire>>
    /\ UNCHANGED audioVars

\* syncClients: one turn of its range loop, on the next element of the batch.
SyncClientsStep ==
    /\ runPc = "syncClients"
    /\ \E info \in ClientInfos : clients' = syncClient(clients, clientInfo, info)
    /\ batchLeft' = batchLeft - 1
    /\ runPc' = IF batchLeft = 1 THEN "loop" ELSE "syncClients"
    /\ UNCHANGED <<clientInfo, externalAWACSModePassword, lastReceived, connClosed,
                   cancelled, ready, wg, runErr, readerPc, message, wire>>
    /\ UNCHANGED audioVars

\* Run's select, case <-ctx.Done(): on to the inner select.
RunContextDone ==
    /\ runPc = "loop"
    /\ cancelled
    /\ runPc' = "drain"
    /\ UNCHANGED <<clientInfo, externalAWACSModePassword, clients, lastReceived,
                   connClosed, cancelled, ready, wg, runErr, readerPc, message,
                   batchLeft, wire>>
    /\ UNCHANGED audioVars

\* Run's select, case err := <-errorChan: Run returns the read error.
RunReadError ==
    /\ runPc = "loop"
    /\ readerPc = "sendError"
    /\ readerPc' = "done"
    /\ wg' = wg - 1
    /\ Return("data client error")
    /\ UNCHANGED <<clientInfo, externalAWACSModePassword, clients, lastReceived,
                   cancelled, ready, message, batchLeft, wire>>
    /\ UNCHANGED audioVars

\* The inner select, case <-messageChan: the message is dropped, Run returns nil.
RunDrainMessage ==
    /\ runPc = "drain"
    /\ readerPc = "sendMessage"
    /\ readerPc' = "check"
    /\ Return("nil")
    /\ UNCHANGED <<clientInfo, externalAWACSModePassword, clients, lastReceived,
                   cancelled, ready, wg, message, batchLeft, wire>>
    /\ UNCHANGED audioVars

\* The inner select, case <-errorChan: Run returns nil.
RunDrainError ==
    /\ runPc = "drain"
    /\ readerPc = "sendError"
    /\ readerPc' = "done"
    /\ wg' = wg - 1
    /\ Return("nil")
    /\ UNCHANGED <<clientInfo, externalAWACSModePassword, clients, lastReceived,
                   cancelled, ready, message, batchLeft, wire>>
    /\ UNCHANGED audioVars

\* --------------------------------------------------- data: the reader's steps

\* The reader's loop head: if ctx.Err() != nil it returns (wg.Done).
ReaderCheck ==
    /\ readerPc = "check"
    /\ IF cancelled
       THEN readerPc' = "done" /\ wg' = wg - 1
       ELSE readerPc' = "read" /\ UNCHANGED wg
    /\ UNCHANGED <<clientInfo, externalAWACSModePassword, clients, lastReceived,
                   connClosed, cancelled, ready, runPc, runErr, message,
                   batchLeft, wire>>
    /\ UNCHANGED audioVars

\* The server answers an ExternalAWACSModePassword only so often.
MayArrive(line) ==
    (line[1] = "json" /\ line[2].Type = MessageExternalAWACSModePassword)
        => (IF Len(wire) < 2 THEN 2 ELSE Len(wire)) < MaxWrites

\* The reader sending on what Unmarshal left, whether or not the line parsed.
ReaderReadLineSendsAll ==
    /\ readerPc = "read"
    /\ ~connClosed
    /\ \E line \in Lines :
        /\ MayArrive(line)
        /\ readerPc' = "sendMessage"
        /\ message' = Unmarshal(line).message
    /\ UNCHANGED <<clientInfo, externalAWACSModePassword, clients, lastReceived,
                   connClosed, cancelled, ready, wg, runPc, runErr, batchLeft, wire>>
    /\ UNCHANGED audioVars

\* reader.ReadBytes returns a line: it is parsed, and sent on unless it is not JSON.
ReaderReadLine ==
    /\ readerPc = "read"
    /\ ~connClosed
    /\ \E line \in Lines :
        /\ MayArrive(line)
        /\ IF Unmarshal(line).err
           THEN readerPc' = "check" /\ message' = NoMessage
           ELSE readerPc' = "sendMessage" /\ message' = Unmarshal(line).message
    /\ UNCHANGED <<clientInfo, externalAWACSModePassword, clients, lastReceived,
                   connClosed, cancelled, ready, wg, runPc, runErr, batchLeft, wire>>
    /\ UNCHANGED audioVars

\* reader.ReadBytes returns io.EOF: the loop goes round.
ReaderReadEOF ==
    /\ readerPc = "read"
    /\ ~connClosed
    /\ readerPc' = "check"
    /\ UNCHANGED <<clientInfo, externalAWACSModePassword, clients, lastReceived,
                   connClosed, cancelled, ready, wg, runPc, runErr, message,
                   batchLeft, wire>>
    /\ UNCHANGED audioVars

\* reader.ReadBytes returns another error while the connection is open.
ReaderReadError ==
    /\ readerPc = "read"
    /\ ~connClosed
    /\ readerPc' = "sendError"
    /\ UNCHANGED <<clientInfo, externalAWACSModePassword, clients, lastReceived,
                   connClosed, cancelled, ready, wg, runPc, runErr, message,
                   batchLeft, wire>>
    /\ UNCHANGED audioVars

\* reader.ReadBytes on the closed connection: the read fails with an error that
\* is not io.EOF.
ReaderReadClosed ==
    /\ readerPc = "read"
    /\ connClosed
    /\ readerPc' = "sendError"
    /\ UNCHANGED <<clientInfo, externalAWACSModePassword, clients, lastReceived,
                   connClosed, cancelled, ready, wg, runPc, runErr, message,
                   batchLeft, wire>>
    /\ UNCHANGED audioVars

DataRun ==
    \/ RunStart \/ RunReady \/ RunSync \/ RunConnect \/ RouterReceive
    \/ SyncClientsStep \/ RunContextDone \/ RunReadError \/ RunDrainMessage
    \/ RunDrainError

DataReader ==
    \/ ReaderCheck \/ ReaderReadLine \/ ReaderReadEOF \/ ReaderReadError
    \/ ReaderReadClosed


\* ------------------------------------------------------------ audio: state

\* Time is counted in ticks of 10 ms, and kept as the time left until (or gone
\* since) each instant the code compares with time.Now().

\* The 250 ms waitForClearChannel adds to the latest deadline.
ClearChannelDelay == 25
\* frameLength, 40 ms.
frameLength == 4

\* The radios the client is configured with, each with its receiver.
Radios == {"radio1", "radio2"}

\* The goroutines in transmit and tx. Run starts the first; busy serialises tx
\* for any caller, and the second stands for one more.
Transmitters == {"transmit1", "transmit2"}

\* cap(voicePacketsTxChan)
PacketChanCap == 3

NoOne == "none"

\* sinceStart is counted up to the nominal slot of the last packet of a batch.
SinceStartCap == (MaxPackets - 1) * frameLength

\* audio.NewClient: the state after construction.
AudioInit ==
    /\ mute \in BOOLEAN
    /\ receivers = [r \in Radios |-> 0]
    /\ busy = NoOne
    /\ udpClosed = FALSE
    /\ audioCancelled = FALSE
    /\ audioRunPc = "start"
    /\ audioRunErr = ""
    /\ packetCh = 0
    /\ txPc = [t \in Transmitters |-> "unstarted"]
    /\ packets = [t \in Transmitters |-> 0]
    /\ index = [t \in Transmitters |-> 0]
    /\ sleepLeft = [t \in Transmitters |-> 0]
    /\ sinceStart = [t \in Transmitters |-> 0]
    /\ writeErr = FALSE

\* receiver.isReceivingTransmission: the deadline is after now.
isReceivingTransmission(r) == receivers[r] > 0

\* -------------------------------------------------------- audio: environment

\* The caller cancels the context.
AudioCancel ==
    /\ ~audioCancelled
    /\ audioCancelled' = TRUE
    /\ UNCHANGED <<mute, writeErr, receivers, busy, udpClosed, audioRunPc, audioRunErr,
                   packetCh, txPc, packets, index, sleepLeft, sinceStart>>
    /\ UNCHANGED dataVars

\* 10 ms pass.
Tick ==
    /\ receivers' = [r \in Radios |-> IF receivers[r] > 0 THEN receivers[r] - 1 ELSE 0]
    /\ sleepLeft' = [t \in Transmitters |-> IF sleepLeft[t] > 0 THEN sleepLeft[t] - 1 ELSE 0]
    /\ sinceStart' = [t \in Transmitters |->
                        IF txPc[t] = "write" /\ sinceStart[t] < SinceStartCap
                        THEN sinceStart[t] + 1 ELSE sinceStart[t]]
    /\ UNCHANGED <<mute, writeErr, busy, udpClosed, audioCancelled, audioRunPc, audioRunErr,
                   packetCh, txPc, packets, index>>
    /\ UNCHANGED dataVars

\* The decoder accepts a voice packet on radio r: the receiver's deadline moves
\* into the future.
ReceiveVoice(r) ==
    /\ audioRunPc = "wait"
    /\ \E hold \in 1..MaxHold :
        /\ hold > receivers[r]
        /\ receivers' = [receivers EXCEPT ![r] = hold]
    /\ UNCHANGED <<mute, writeErr, busy, udpClosed, audioCancelled, audioRunPc, audioRunErr,
                   packetCh, txPc, packets, index, sleepLeft, sinceStart>>
    /\ UNCHANGED dataVars

\* encodeVoice puts a batch on voicePacketsTxChan.
EncodeVoice ==
    /\ audioRunPc = "wait"
    /\ packetCh < PacketChanCap
    /\ packetCh' = packetCh + 1
    /\ UNCHANGED <<mute, writeErr, receivers, busy, udpClosed, audioCancelled, audioRunPc,
                   audioRunErr, txPc, packets, index, sleepLeft, sinceStart>>
    /\ UNCHANGED dataVars

\* ------------------------------------------------------------ audio: Run

\* Run that returns without waiting for the context.
AudioRunReturnUncancelled ==
    /\ audioRunPc = "wait"
    /\ audioRunPc' = "returned"
    /\ audioRunErr' = "nil"
    /\ udpClosed' = TRUE
    /\ UNCHANGED <<mute, writeErr, receivers, busy, audioCancelled, packetCh, txPc, packets,
                   index, sleepLeft, sinceStart>>
    /\ UNCHANGED dataVars

\* Run: starts the goroutines, transmit among them, and blocks on ctx.Done().
AudioRunStart ==
    /\ audioRunPc = "start"
    /\ audioRunPc' = "wait"
    /\ txPc' = [t \in Transmitters |-> "idle"]
    /\ UNCHANGED <<mute, writeErr, receivers, busy, udpClosed, audioCancelled, audioRunErr,
                   packetCh, packets, index, sleepLeft, sinceStart>>
    /\ UNCHANGED dataVars

\* Run: <-ctx.Done(), return nil; the deferred close closes the connection.
AudioRunReturn ==
    /\ audioRunPc = "wait"
    /\ audioCancelled
    /\ audioRunPc' = "returned"
    /\ audioRunErr' = "nil"
    /\ udpClosed' = TRUE
    /\ UNCHANGED <<mute, writeErr, receivers, busy, audioCancelled, packetCh, txPc, packets,
                   index, sleepLeft, sinceStart>>
    /\ UNCHANGED dataVars

\* ------------------------------------------------------ audio: transmit, tx

\* transmit's select, case packets := <-packetCh: it calls tx.
TransmitReceive(t) ==
    /\ txPc[t] = "idle"
    /\ packetCh > 0
    /\ packetCh' = packetCh - 1
    /\ \E n \in 0..MaxPackets : packets' = [packets EXCEPT ![t] = n]
    /\ txPc' = [txPc EXCEPT ![t] = "lock"]
    /\ UNCHANGED <<mute, writeErr, receivers, busy, udpClosed, audioCancelled, audioRunPc,
                   audioRunErr, index, sleepLeft, sinceStart>>
    /\ UNCHANGED dataVars

\* transmit's select, case <-ctx.Done(): it returns.
TransmitDone(t) ==
    /\ txPc[t] = "idle"
    /\ audioCancelled
    /\ txPc' = [txPc EXCEPT ![t] = "done"]
    /\ UNCHANGED <<mute, writeErr, receivers, busy, udpClosed, audioCancelled, audioRunPc,
                   audioRunErr, packetCh, packets, index, sleepLeft, sinceStart>>
    /\ UNCHANGED dataVars

\* tx that goes on without the mutex.
TxLockNoMutex(t) ==
    /\ txPc[t] = "lock"
    /\ busy' = t
    /\ txPc' = [txPc EXCEPT ![t] = "check"]
    /\ UNCHANGED <<mute, writeErr, receivers, udpClosed, audioCancelled, audioRunPc,
                   audioRunErr, packetCh, packets, index, sleepLeft, sinceStart>>
    /\ UNCHANGED dataVars

\* tx: c.busy.Lock()
TxLock(t) ==
    /\ txPc[t] = "lock"
    /\ busy = NoOne
    /\ busy' = t
    /\ txPc' = [txPc EXCEPT ![t] = "check"]
    /\ UNCHANGED <<mute, writeErr, receivers, udpClosed, audioCancelled, audioRunPc,
                   audioRunErr, packetCh, packets, index, sleepLeft, sinceStart>>
    /\ UNCHANGED dataVars

\* The latest deadline among the receivers that are receiving, as time from now.
LatestDeadline ==
    CHOOSE d \in 0..MaxHold + 1 :
        /\ \A r \in Radios : receivers[r] <= d
        /\ \E r \in Radios : receivers[r] = d

\* tx that writes the batch of a muted client too.
TxProceedIgnoreMute(t) ==
    IF packets[t] = 0
    THEN /\ busy' = NoOne
         /\ txPc' = [txPc EXCEPT ![t] = "pause"]
         /\ UNCHANGED <<index, sinceStart>>
    ELSE /\ txPc' = [txPc EXCEPT ![t] = "write"]
         /\ index' = [index EXCEPT ![t] = 0]
         /\ sinceStart' = [sinceStart EXCEPT ![t] = 0]
         /\ UNCHANGED busy

\* tx after waitForClearChannel has returned: a muted client, or an empty
\* batch, leaves tx (the deferred Unlock); otherwise writePackets takes startTime.
TxProceed(t) ==
    IF mute \/ packets[t] = 0
    THEN /\ busy' = NoOne
         /\ txPc' = [txPc EXCEPT ![t] = "pause"]
         /\ UNCHANGED <<index, sinceStart>>
    ELSE /\ txPc' = [txPc EXCEPT ![t] = "write"]
         /\ index' = [index EXCEPT ![t] = 0]
         /\ sinceStart' = [sinceStart EXCEPT ![t] = 0]
         /\ UNCHANGED busy

\* waitForClearChannel that sleeps once and returns without a second look.
WaitWakeNoRecheck(t) ==
    /\ txPc[t] = "sleep"
    /\ sleepLeft[t] = 0
    /\ TxProceed(t)
    /\ UNCHANGED <<mute, writeErr, receivers, udpClosed, audioCancelled, audioRunPc,
                   audioRunErr, packetCh, packets, sleepLeft>>
    /\ UNCHANGED dataVars

\* waitForClearChannel that sleeps until the latest deadline and no longer.
WaitCheckNoGrace(t) ==
    /\ txPc[t] = "check"
    /\ IF \E r \in Radios : isReceivingTransmission(r)
       THEN /\ sleepLeft' = [sleepLeft EXCEPT ![t] = LatestDeadline]
            /\ txPc' = [txPc EXCEPT ![t] = "sleep"]
            /\ UNCHANGED <<busy, index, sinceStart>>
       ELSE /\ TxProceed(t)
            /\ UNCHANGED sleepLeft
    /\ UNCHANGED <<mute, writeErr, receivers, udpClosed, audioCancelled, audioRunPc,
                   audioRunErr, packetCh, packets>>
    /\ UNCHANGED dataVars

\* waitForClearChannel: one pass over the receivers. If one is receiving it
\* sleeps until the latest deadline plus 250 ms; if none is, it returns.
WaitCheck(t) ==
    /\ txPc[t] = "check"
    /\ IF \E r \in Radios : isReceivingTransmission(r)
       THEN /\ sleepLeft' = [sleepLeft EXCEPT ![t] = LatestDeadline + ClearChannelDelay]
            /\ txPc' = [txPc EXCEPT ![t] = "sleep"]
            /\ UNCHANGED <<busy, index, sinceStart>>
       ELSE /\ TxProceed(t)
            /\ UNCHANGED sleepLeft
    /\ UNCHANGED <<mute, writeErr, receivers, udpClosed, audioCancelled, audioRunPc,
                   audioRunErr, packetCh, packets>>
    /\ UNCHANGED dataVars

\* waitForClearChannel: time.Sleep(delay) is over, the loop goes round.
WaitWake(t) ==
    /\ txPc[t] = "sleep"
    /\ sleepLeft[t] = 0
    /\ txPc' = [txPc EXCEPT ![t] = "check"]
    /\ UNCHANGED <<mute, writeErr, receivers, busy, udpClosed, audioCancelled, audioRunPc,
                   audioRunErr, packetCh, packets, index, sleepLeft, sinceStart>>
    /\ UNCHANGED dataVars

\* writePackets that writes each packet as soon as it can.
WritePacketUnpaced(t) ==
    /\ txPc[t] = "write"
    /\ index' = [index EXCEPT ![t] = index[t] + 1]
    /\ IF index[t] + 1 = packets[t]
       THEN /\ busy' = NoOne
            /\ txPc' = [txPc EXCEPT ![t] = "pause"]
            /\ sinceStart' = [sinceStart EXCEPT ![t] = 0]
            /\ writeErr' = FALSE
       ELSE /\ \E writeOk \in BOOLEAN : writeErr' = ~writeOk
            /\ UNCHANGED <<busy, txPc, sinceStart>>
    /\ UNCHANGED <<mute, receivers, udpClosed, audioCancelled, audioRunPc,
                   audioRunErr, packetCh, packets, sleepLeft>>
    /\ UNCHANGED dataVars

\* writePackets: packet i is written once startTime + i*frameLength -
\* frameLength/2 has come; a failed write is logged and the loop goes on.
\* After the last packet writePackets and tx return (err is gone, the deferred
\* Unlock runs) and transmit pauses.
WritePacket(t) ==
    /\ txPc[t] = "write"
    /\ sinceStart[t] >= index[t] * frameLength - frameLength \div 2
    /\ index' = [index EXCEPT ![t] = index[t] + 1]
    /\ IF index[t] + 1 = packets[t]
       THEN /\ busy' = NoOne
            /\ txPc' = [txPc EXCEPT ![t] = "pause"]
            /\ sinceStart' = [sinceStart EXCEPT ![t] = 0]
            /\ writeErr' = FALSE
       ELSE /\ \E writeOk \in BOOLEAN : writeErr' = ~writeOk
            /\ UNCHANGED <<busy, txPc, sinceStart>>
    /\ UNCHANGED <<mute, receivers, udpClosed, audioCancelled, audioRunPc,
                   audioRunErr, packetCh, packets, sleepLeft>>
    /\ UNCHANGED dataVars

\* transmit: the pause between transmissions is over.
PauseWake(t) ==
    /\ txPc[t] = "pause"
    /\ txPc' = [txPc EXCEPT ![t] = "idle"]
    /\ packets' = [packets EXCEPT ![t] = 0]
    /\ index' = [index EXCEPT ![t] = 0]
    /\ UNCHANGED <<mute, writeErr, receivers, busy, udpClosed, audioCancelled, audioRunPc,
                   audioRunErr, packetCh, sleepLeft, sinceStart>>
    /\ UNCHANGED dataVars

AudioRun == AudioRunStart \/ AudioRunReturn

AudioTransmit ==
    \E t \in Transmitters :
        \/ TransmitReceive(t) \/ TransmitDone(t) \/ TxLock(t) \/ WaitCheck(t)
        \/ WaitWake(t) \/ WritePacket(t) \/ PauseWake(t)

AudioEnvironment ==
    \/ AudioCancel \/ Tick \/ EncodeVoice
    \/ \E r \in Radios : ReceiveVoice(r)

AudioNext == AudioRun \/ AudioTransmit \/ AudioEnvironment

\* ------------------------------------------------------- specifications

\* The data client, from NewClient on.
Init == DataInit /\ AudioInit /\ mute = FALSE

Next == Cancel \/ DataRun \/ DataReader

Spec == Init /\ [][Next]_vars

\* Run and the reader take the steps they can; the server and the caller owe nothing.
FairSpec ==
    /\ Spec
    /\ WF_vars(DataRun)
    /\ WF_vars(ReaderCheck \/ ReaderReadClosed)

\* The audio client, from NewClient on.
AudioSpecInit == AudioInit /\ DataInit /\ clientInfo = SelfInfo(Blue)

AudioSpec == AudioSpecInit /\ [][AudioNext]_vars

\* The audio client's Run takes the steps it can.
AudioFairSpec == AudioSpec /\ WF_vars(AudioRun)

\* ------------------------------------------------------------ properties

\* The peer is in a coalition this client accepts.
CoalitionCompatible(other) ==
    clientInfo.Coalition = other.Coalition \/ other.Coalition = Spectator

\* The router is taking a message of one of these types from the reader.
Receiving(types) ==
    runPc = "loop" /\ readerPc = "sendMessage" /\ message.Type \in types

\* The router has taken the reader's message and Run is still in its loop.
Received(types) ==
    runPc = "loop" /\ readerPc \in {"check", "read"} /\ message.Type \in types

\* Both handshake messages have been written.
HandshakeDone == Len(wire) >= 2 /\ wire[1].ok /\ wire[2].ok

\* C1: whatever Sync, Update, RadioUpdate and ClientDisconnect messages have
\* been handled, the client's own GUID is no key of the peer directory.
SelfNeverInDirectory == clientInfo.GUID \notin DOMAIN clients

\* C1's case: an Update or RadioUpdate carrying the client's own GUID, in a
\* matching coalition and on frequency, has been handled.
OwnGUIDHandled ==
    /\ Received({MessageUpdate, MessageRadioUpdate})
    /\ message.Client.GUID = clientInfo.GUID
    /\ message.Client.Coalition = clientInfo.Coalition
    /\ IsOnFrequency(clientInfo.RadioInfo, message.Client.RadioInfo)

\* Every entry is filed under its own GUID, is coalition-compatible with this
\* client and shares a radio with it.
EntriesMatch ==
    \A g \in DOMAIN clients :
        /\ clients[g].GUID = g
        /\ CoalitionCompatible(clients[g])
        /\ IsOnFrequency(clientInfo.RadioInfo, clients[g].RadioInfo)

\* An entry appears or changes only as the router applies a client of a Sync
\* batch or the client of an Update or RadioUpdate, and then it is that client.
EntriesComeFromSync ==
    \A g \in DOMAIN clients' :
        (g \notin DOMAIN clients \/ clients'[g] # clients[g]) =>
            \/ runPc = "syncClients"
            \/ /\ Receiving({MessageUpdate, MessageRadioUpdate})
               /\ message.Client = clients'[g]

\* An Update or RadioUpdate that is not ignored leaves its GUID with the
\* client it carried, or without an entry.
LastSyncWins ==
    (/\ Receiving({MessageUpdate, MessageRadioUpdate})
     /\ readerPc' = "check"
     /\ message.Client.GUID # clientInfo.GUID
     /\ Len(message.Client.RadioInfo.Radios) > 0)
        => (message.Client.GUID \in DOMAIN clients'
                => clients'[message.Client.GUID] = message.Client)

\* C2: in every reachable state each entry of the peer directory is the
\* ClientInfo of the last Sync, Update or RadioUpdate that affected its GUID,
\* and is coalition-compatible and on frequency with this client.
DirectoryHoldsLastSync ==
    /\ []EntriesMatch
    /\ [][EntriesComeFromSync /\ LastSyncWins]_vars

\* C2's case: both peers are in the directory, one of them a spectator
\* admitted by a client that is not.
TwoPeersStored ==
    /\ DOMAIN clients = {"A", "B"}
    /\ clientInfo.Coalition # Spectator
    /\ clients["A"].Coalition = Spectator
    /\ clients["B"].Coalition = clientInfo.Coalition

\* A voice packet of t's batch is written in this step.
Wrote(t) == txPc[t] = "write" /\ index'[t] = index[t] + 1

\* C3 as claimed: no voice packet is written while a receiver's deadline is
\* in the future, whichever packet of the batch it is.
NoWriteWhileReceiving ==
    [][\A t \in Transmitters : Wrote(t) => \A r \in Radios : receivers[r] = 0]_vars

\* C3, amended: writePackets is entered only at an instant at which no
\* receiver's deadline is in the future (the pass of waitForClearChannel that
\* returns), and packets are written only inside writePackets.
WritesStartOnClearChannel ==
    [][\A t \in Transmitters :
          /\ (txPc'[t] = "write" /\ txPc[t] # "write")
                => \A r \in Radios : receivers[r] = 0
          /\ index'[t] > index[t] => txPc[t] = "write"]_vars

\* C3's case: a batch is part written while a receiver has a deadline in the
\* future.
BatchUnderwayWhileReceiving ==
    \E t \in Transmitters :
        /\ txPc[t] = "write"
        /\ index[t] >= 1
        /\ \E r \in Radios : receivers[r] > 0

\* t is in tx between busy.Lock() and the deferred Unlock.
InTx(t) == txPc[t] \in {"check", "sleep", "write"}

\* C4: the clear-channel wait and the writes of a batch happen with busy
\* held, by one transmitter at a time, and busy is free after every batch:
\* no two batches' writes overlap.
TransmissionsDoNotOverlap ==
    /\ \A t \in Transmitters : InTx(t) <=> busy = t
    /\ \A t, u \in Transmitters : (InTx(t) /\ InTx(u)) => t = u

\* C4's case: a batch is part written while the other transmitter has a
\* batch and waits for busy.
SecondBatchWaits ==
    \E t, u \in Transmitters :
        txPc[t] = "write" /\ index[t] >= 1 /\ txPc[u] = "lock" /\ packets[u] > 0

\* C5 as claimed: once the context is canceled, Run returns.
CancelLeadsToReturn == cancelled ~> (runPc = "returned")

\* C6 as claimed: once Run has returned, the reader is not blocked on a send
\* to the message channel or the error channel, which nothing receives from
\* any more.
ReaderNotStranded ==
    runPc = "returned" => readerPc \notin {"sendMessage", "sendError"}

\* C7 as claimed: ready is signaled only after both handshake messages have
\* been written.
ReadyOnlyAfterHandshake == ready => HandshakeDone

\* The message Run writes first, and second.
SyncMessage ==
    [Version |-> ProtocolVersion, Type |-> MessageSync, Client |-> clientInfo,
     ExternalAWACSModePassword |-> ""]

AwacsMessage ==
    [Version |-> ProtocolVersion, Type |-> MessageExternalAWACSModePassword,
     Client |-> clientInfo, ExternalAWACSModePassword |-> externalAWACSModePassword]

\* C8: the first two writes are Sync and then ExternalAWACSModePassword, with
\* this client's ClientInfo (and the password); nothing is handled before
\* both are written; after a failed handshake write Run has returned an
\* error, has written nothing more and never entered the router.
HandshakeFirst ==
    /\ Len(wire) >= 1 => wire[1].msg = SyncMessage
    /\ Len(wire) >= 2 => wire[1].ok /\ wire[2].msg = AwacsMessage
    /\ Len(wire) >= 3 => wire[2].ok
    /\ (\/ lastReceived # 0
        \/ runPc \in {"loop", "syncClients", "drain"}
        \/ DOMAIN clients # {}) => HandshakeDone
    /\ \A i \in 1..2 :
          (i <= Len(wire) /\ ~wire[i].ok) =>
              /\ runPc = "returned"
              /\ runErr \notin {"", "nil"}
              /\ Len(wire) = i
              /\ lastReceived = 0

\* C8's case: the handshake is written and the router has handled a message.
RouterAfterHandshake == HandshakeDone /\ lastReceived = 1 /\ Len(wire) = 2

\* The error Run would return for a failed write of a message of this type.
WriteError(type) ==
    IF type = MessageSync THEN "initial sync failed"
    ELSE IF type = MessageExternalAWACSModePassword THEN "external AWACS mode failed"
    ELSE "radio update failed"

HandshakeFailuresFatal ==
    \A i \in 1..Len(wire) :
        (~wire[i].ok /\ wire[i].msg.Type # MessageRadioUpdate) =>
            runPc = "returned" /\ runErr = WriteError(wire[i].msg.Type)

\* A RadioUpdate write fails in this step.
RadioUpdateFails ==
    /\ Len(wire') = Len(wire) + 1
    /\ wire'[Len(wire')].msg.Type = MessageRadioUpdate
    /\ ~wire'[Len(wire')].ok

Routes(types) == Receiving(types) /\ readerPc' = "check"

\* C11: handling a ClientDisconnect leaves the directory without the GUID of
\* its client and with every other entry as it was, whatever else the client
\* of the message says and whether or not the GUID had an entry; a GUID
\* enters the directory only as a Sync, Update or RadioUpdate is applied.
DisconnectRemoves ==
    [][/\ Routes({MessageClientDisconnect}) =>
            /\ DOMAIN clients' = DOMAIN clients \ {message.Client.GUID}
            /\ \A g \in DOMAIN clients' : clients'[g] = clients[g]
       /\ \A g \in DOMAIN clients' \ DOMAIN clients :
            \/ runPc = "syncClients"
            \/ Receiving({MessageUpdate, MessageRadioUpdate})]_vars

\* C11's case: a ClientDisconnect whose client is in an opposing coalition
\* and has no radios has been handled; its GUID has no entry, the other peer
\* has kept its own.
DisconnectHandled ==
    /\ Received({MessageClientDisconnect})
    /\ message.Client.GUID = "A"
    /\ ~CoalitionCompatible(message.Client)
    /\ Len(message.Client.RadioInfo.Radios) = 0
    /\ DOMAIN clients = {"B"}

\* Some receiver's deadline is in the future.
SomeoneReceiving == \E r \in Radios : receivers[r] > 0

\* The latest of the receivers' deadlines, as time from now.
MaxDeadline ==
    CHOOSE d \in {receivers[r] : r \in Radios} : \A r \in Radios : receivers[r] <= d

\* C12: a muted client never writes a voice packet; its batches still take
\* busy before anything else, sleep in the clear-channel wait while a receiver
\* is receiving, and are dropped, with busy released, only from a pass that
\* found no receiver receiving. The lock and the wait do not depend on mute.
MutedBatchesWaitAndDrop ==
    /\ [](mute => \A t \in Transmitters : index[t] = 0 /\ txPc[t] # "write")
    /\ [][\A t \in Transmitters :
            /\ (txPc[t] = "lock" /\ txPc'[t] # "lock") =>
                  busy = NoOne /\ busy' = t /\ txPc'[t] = "check"
            /\ (txPc[t] = "check" /\ txPc'[t] # "check" /\ SomeoneReceiving) =>
                  txPc'[t] = "sleep" /\ busy' = t
            /\ (txPc[t] = "sleep" /\ txPc'[t] # "sleep") =>
                  txPc'[t] = "check" /\ busy' = t
            /\ (mute /\ txPc[t] # "pause" /\ txPc'[t] = "pause") =>
                  /\ txPc[t] = "check"
                  /\ ~SomeoneReceiving
                  /\ busy = t /\ busy' = NoOne]_vars

\* C12's case: a muted client has dropped one batch of packets after its
\* wait, and holds busy for another while it sleeps in the clear-channel wait.
MutedBatchDropped ==
    /\ mute
    /\ \E t, u \in Transmitters :
          /\ txPc[t] = "pause" /\ packets[t] > 0 /\ index[t] = 0
          /\ txPc[u] = "sleep" /\ packets[u] > 0 /\ busy = u

\* C13 as claimed: an Update or RadioUpdate for a peer that is not this
\* client, has radios and is on frequency stores the peer whenever its
\* coalition is this client's, or the peer is a spectator, or this client is.
SpectatorMatchesAll ==
    [][(/\ Routes({MessageUpdate, MessageRadioUpdate})
        /\ message.Client.GUID # clientInfo.GUID
        /\ Len(message.Client.RadioInfo.Radios) > 0
        /\ IsOnFrequency(clientInfo.RadioInfo, message.Client.RadioInfo)
        /\ \/ message.Client.Coalition = clientInfo.Coalition
           \/ message.Client.Coalition = Spectator
           \/ clientInfo.Coalition = Spectator)
          => /\ message.Client.GUID \in DOMAIN clients'
             /\ clients'[message.Client.GUID] = message.Client]_vars

\* C14: a line that is not JSON never reaches the router (the reader sends
\* only parsed messages); a read that yields no message changes neither the
\* directory, the connection nor Run, and leaves the reader at its loop head;
\* while the connection is open the reader can read and pass on a well-formed
\* line; and the router handles the line the reader read last, one at a time.
MalformedLineDropped ==
    /\ [](readerPc = "sendMessage" => message \in Messages)
    /\ [](readerPc = "read" /\ ~connClosed =>
            ENABLED (ReaderReadLine /\ readerPc' = "sendMessage"))
    /\ [][/\ (readerPc = "read" /\ readerPc' = "check") =>
                UNCHANGED <<clients, lastReceived, wire, runPc, runErr,
                            connClosed, wg, ready>>
          /\ (runPc = "loop" /\ <<clients, lastReceived, wire>>' #
                                <<clients, lastReceived, wire>>) =>
                /\ readerPc = "sendMessage" /\ readerPc' = "check"
                /\ message' = message]_vars

\* C14's case: after messages that filled the directory a line that is not
\* JSON was read; Run is in its loop, the connection is open and the reader
\* is reading on.
GarbageReadOn ==
    /\ message = NoMessage
    /\ lastReceived = 1
    /\ DOMAIN clients # {}
    /\ runPc = "loop"
    /\ readerPc = "read"
    /\ ~connClosed

\* The peer passes both tests of syncClient.
Matches(other) ==
    CoalitionCompatible(other) /\ IsOnFrequency(clientInfo.RadioInfo, other.RadioInfo)

\* Every entry but the one of this GUID is as it was.
OthersKept(guid) ==
    /\ DOMAIN clients' \ {guid} = DOMAIN clients \ {guid}
    /\ \A g \in DOMAIN clients \ {guid} : clients'[g] = clients[g]

\* C15: after an Update or RadioUpdate for a peer that is not this client and
\* has radios, the peer's GUID is in the directory exactly if the peer is in
\* this client's coalition or a spectator, and on frequency; the entry is then
\* the received ClientInfo, and an entry the peer had is gone otherwise. One
\* element of a Sync batch touches one GUID, and leaves it with a matching
\* entry or with none.
SinglePeerRule ==
    [][/\ (/\ Routes({MessageUpdate, MessageRadioUpdate})
           /\ message.Client.GUID # clientInfo.GUID
           /\ Len(message.Client.RadioInfo.Radios) > 0)
            => /\ message.Client.GUID \in DOMAIN clients' <=> Matches(message.Client)
               /\ Matches(message.Client) =>
                     clients'[message.Client.GUID] = message.Client
               /\ OthersKept(message.Client.GUID)
       /\ (runPc = "syncClients" /\ batchLeft' # batchLeft)
            => \E g \in GUIDs \ {clientInfo.GUID} :
                  /\ OthersKept(g)
                  /\ g \in DOMAIN clients' =>
                        clients'[g].GUID = g /\ Matches(clients'[g])]_vars

\* C15's case: an Update or RadioUpdate for peer A, in this client's
\* coalition with a radio on another frequency, has been handled: A has no
\* entry, B has kept its own.
PeerOffFrequencyHandled ==
    /\ Received({MessageUpdate, MessageRadioUpdate})
    /\ message.Client.GUID = "A"
    /\ message.Client.Coalition = clientInfo.Coalition
    /\ Len(message.Client.RadioInfo.Radios) > 0
    /\ ~IsOnFrequency(clientInfo.RadioInfo, message.Client.RadioInfo)
    /\ DOMAIN clients = {"B"}

\* C16: a pass of waitForClearChannel that finds a receiver receiving puts
\* the transmitter to sleep for the time until the latest deadline plus
\* 250 ms; the sleep runs on the clock the deadlines run on and ends no
\* earlier; after it the receivers are checked again; and the wait is left,
\* for the first write or the drop of the batch, only from a pass that finds
\* no receiver receiving.
ClearChannelWait ==
    [][\A t \in Transmitters :
          /\ (txPc[t] = "check" /\ txPc'[t] # "check" /\ SomeoneReceiving) =>
                /\ txPc'[t] = "sleep"
                /\ sleepLeft'[t] = MaxDeadline + ClearChannelDelay
          /\ (txPc[t] = "sleep" /\ txPc'[t] = "sleep") =>
                /\ sleepLeft'[t] \in {sleepLeft[t], sleepLeft[t] - 1}
                /\ sleepLeft'[t] < sleepLeft[t] =>
                      \A r \in Radios :
                          receivers'[r] = IF receivers[r] > 0
                                          THEN receivers[r] - 1 ELSE 0
          /\ (txPc[t] = "sleep" /\ txPc'[t] # "sleep") =>
                sleepLeft[t] = 0 /\ txPc'[t] = "check"
          /\ (txPc[t] \in {"lock", "check", "sleep"} /\ txPc'[t] \in {"write", "pause"}) =>
                txPc[t] = "check" /\ ~SomeoneReceiving]_vars

\* C16's case: a transmitter has slept out its delay, and a receiver is
\* receiving again: the next pass sends it back to sleep.
SleptAndReceivingAgain ==
    \E t \in Transmitters :
        /\ txPc[t] = "sleep"
        /\ sleepLeft[t] = 0
        /\ packets[t] > 0
        /\ SomeoneReceiving

\* C17: the packets of a batch are written one at a time from index 0 up,
\* packet i no earlier than i*frameLength - frameLength/2 after the startTime
\* taken as writePackets is entered; the time since startTime runs on only
\* with the clock; and writePackets is left only with every packet of the
\* batch written, whatever writes failed.
PacedInOrder ==
    [][\A t \in Transmitters :
          /\ (txPc[t] # "write" /\ txPc'[t] = "write") =>
                index'[t] = 0 /\ sinceStart'[t] = 0 /\ packets[t] > 0
          /\ Wrote(t) =>
                /\ index[t] < packets[t]
                /\ sinceStart[t] >= index[t] * frameLength - frameLength \div 2
          /\ (txPc[t] = "write" /\ index'[t] # index[t]) => Wrote(t)
          /\ (txPc[t] = "write" /\ txPc'[t] = "write") =>
                /\ sinceStart'[t] \in {sinceStart[t], sinceStart[t] + 1}
                /\ sinceStart'[t] # sinceStart[t] => index'[t] = index[t]
          /\ (txPc[t] = "write" /\ txPc'[t] # "write") =>
                Wrote(t) /\ index'[t] = packets[t]]_vars

\* C17's case: the write of the first packet of a batch of two has failed,
\* and half a frame on the second is due.
SecondPacketDueAfterFailure ==
    \E t \in Transmitters :
        /\ txPc[t] = "write"
        /\ writeErr
        /\ index[t] = 1
        /\ packets[t] >= 2
        /\ sinceStart[t] = frameLength \div 2

\* syncClient returns at once for this client: it is this client itself, or
\* it has no radios.
Ignored(other) ==
    other.GUID = clientInfo.GUID \/ Len(other.RadioInfo.Radios) = 0

RadioUpdateMessage ==
    [Version |-> ProtocolVersion, Type |-> MessageRadioUpdate, Client |-> clientInfo,
     ExternalAWACSModePassword |-> ""]

\* The connection is written to in this step, and the message is a RadioUpdate.
WritesRadioUpdate ==
    /\ wire' # wire
    /\ wire'[Len(wire')].msg.Type = MessageRadioUpdate

\* C19: handling an ExternalAWACSModePassword message whose client is in this
\* client's coalition makes one write to the connection, of a RadioUpdate with
\* this client's ClientInfo and the protocol version; handling one of another
\* coalition writes nothing; neither changes the directory; and a RadioUpdate
\* is written in no other step, so every RadioUpdate on the connection comes
\* after the handshake and is that message.
RadioUpdateOnEcho ==
    /\ [][/\ Routes({MessageExternalAWACSModePassword}) =>
                /\ clients' = clients
                /\ IF message.Client.Coalition = clientInfo.Coalition
                   THEN /\ Len(wire') = Len(wire) + 1
                        /\ SubSeq(wire', 1, Len(wire)) = wire
                        /\ wire'[Len(wire')].msg = RadioUpdateMessage
                   ELSE wire' = wire
          /\ WritesRadioUpdate =>
                /\ Routes({MessageExternalAWACSModePassword})
                /\ message.Client.Coalition = clientInfo.Coalition]_vars
    /\ [](\A i \in 1..Len(wire) :
            wire[i].msg.Type = MessageRadioUpdate =>
                i >= 3 /\ wire[i].msg = RadioUpdateMessage)

\* C19's case: an ExternalAWACSModePassword of this client's coalition has
\* been handled with peers in the directory: the third write is the
\* RadioUpdate, and it went through.
RadioUpdateSent ==
    /\ Received({MessageExternalAWACSModePassword})
    /\ message.Client.Coalition = clientInfo.Coalition
    /\ DOMAIN clients # {}
    /\ Len(wire) = 3
    /\ wire[3].msg = RadioUpdateMessage
    /\ wire[3].ok

\* C20: in every reachable state ClientsOnFrequency() is the number of
\* entries of the directory, and IsOnFrequency(name) holds exactly of the names
\* of its entries: the queries' own on-frequency test filters nothing out. This
\* client's ClientInfo, its radios with it, never changes.
QueriesSeeWholeDirectory ==
    /\ [](/\ ClientsOnFrequency = Cardinality(DOMAIN clients)
          /\ \A name \in Names :
                ClientIsOnFrequency(name) <=>
                    \E g \in DOMAIN clients : clients[g].Name = name)
    /\ [][clientInfo' = clientInfo]_vars

\* C20's case: two peers with different names are in the directory, and the
\* queries count and find both.
BothPeersCounted ==
    /\ ClientsOnFrequency = 2
    /\ ClientIsOnFrequency("Viper")
    /\ ClientIsOnFrequency("Eagle")
    /\ ~ClientIsOnFrequency("SkyEye")

\* C21: taking a Sync from the reader changes no entry, and a Sync without
\* clients leaves Run in its loop with nothing more to do; each element of a
\* batch is applied in a step of its own, under the lock, that touches the
\* entry of one GUID and no other; so does every step of the client. Between
\* those steps the directory, as the queries see it, holds whole entries only,
\* each under its own GUID.
SyncIsIncremental ==
    /\ [][/\ Routes({MessageSync}) =>
                /\ clients' = clients
                /\ IF message.NumClients = 0
                   THEN runPc' = "loop" /\ batchLeft' = batchLeft
                   ELSE runPc' = "syncClients" /\ batchLeft' = message.NumClients
          /\ (runPc = "syncClients" /\ batchLeft' # batchLeft) =>
                /\ batchLeft' = batchLeft - 1
                /\ runPc' = IF batchLeft' = 0 THEN "loop" ELSE "syncClients"
          /\ \E g \in GUIDs : OthersKept(g)]_vars
    /\ [](/\ \A g \in DOMAIN clients : clients[g] \in ClientInfos /\ clients[g].GUID = g
          /\ runPc = "syncClients" <=> batchLeft > 0)

\* C21's case: the first of the two clients of a Sync has been applied, the
\* second has not; a query at this point counts two peers, one of them left
\* from before the first element.
QueryBetweenElements ==
    /\ runPc = "syncClients"
    /\ readerPc = "check"
    /\ message.Type = MessageSync
    /\ message.NumClients = 2
    /\ batchLeft = 1
    /\ ClientsOnFrequency = 2
====
